---- MODULE Spec2Model ----
(***************************************************************************)
(* A model of gen_resistors_csv.py: the string builders of a Yageo         *)
(* resistor record, the catalog generation loop and the CSV serialisation. *)
(*                                                                         *)
(* Strings are sequences of one-character strings, so that formatting,     *)
(* stripping and replacing are computed character by character.            *)
(*                                                                         *)
(* A resistance is a record [o, m, up]: o whole ohms and m thousandths of  *)
(* an ohm (0..999) give its decimal value; every resistance handled here   *)
(* has at most three decimals.  The float that stands for the decimal value *)
(* carries a representation error, which decides the result of :.2f only   *)
(* where the scaled decimal value lies exactly half way between two        *)
(* hundredths: up = 1 when the float then prints as the upper one, 0 when  *)
(* as the lower one.  Either may happen, depending on the value.           *)
(* A tolerance is a number of tenths of a percent (1.0 is 10, 5.0 is 50).  *)
(***************************************************************************)
EXTENDS Integers, Sequences, FiniteSets, TLC

\* ------------------------------------------------------------------ bounds
\* Half-width, in ohms, of the windows of resistances tried around each
\* point of interest of the formatters.
Window == 1
\* Largest number of rows the output file may hold before the run.
MaxOldRows == 2

\* ----------------------------------------------------------------- strings
DigitChar == <<"0", "1", "2", "3", "4", "5", "6", "7", "8", "9">>

RECURSIVE Digits(_)
\* str(n) of a natural number
Digits(n) == IF n < 10 THEN <<DigitChar[n + 1]>>
             ELSE Digits(n \div 10) \o <<DigitChar[(n % 10) + 1]>>

RECURSIVE RStrip(_, _)
\* s.rstrip(c) for a single character c
RStrip(s, c) == IF s # <<>> /\ s[Len(s)] = c
                THEN RStrip(SubSeq(s, 1, Len(s) - 1), c)
                ELSE s

\* s.replace(a, b) for single characters a and b
Replace(s, a, b) == [i \in 1..Len(s) |-> IF s[i] = a THEN b ELSE s[i]]

\* What is left of r below a whole number of hundredths of `unit` ohms, and
\* half a hundredth, both in thousandths of an ohm.  unit is 1, 1000 or 1000000.
Remainder(r, unit) == IF unit = 1 THEN r.m % 10 ELSE (r.o % (unit \div 100)) * 1000 + r.m
Half(unit) == IF unit = 1 THEN 5 ELSE unit * 5

\* The scaled resistance in hundredths of `unit` ohms, rounded to nearest:
\* the number f"{resistance / unit:.2f}" prints, times 100.
Hundredths(r, unit) ==
    LET q   == IF unit = 1 THEN r.o * 100 + (r.m \div 10) ELSE r.o \div (unit \div 100)
        rem == Remainder(r, unit)
    IN  IF rem > Half(unit) \/ (rem = Half(unit) /\ r.up = 1) THEN q + 1 ELSE q

\* f"{x:.2f}" of x = h / 100
Fmt2f(h) == Digits(h \div 100) \o <<".">>
            \o <<DigitChar[((h % 100) \div 10) + 1], DigitChar[(h % 10) + 1]>>

\* f"{x:.1f}" of x = t / 10
Fmt1f(t) == Digits(t \div 10) \o <<".">> \o <<DigitChar[(t % 10) + 1]>>

\* ------------------------------------------------------------ the builders
resistor_tolerance_str(tolerance) ==
    RStrip(RStrip(Fmt1f(tolerance), "0"), ".") \o <<"%">>

\* resistor_value_str with the thresholds compared by > instead of >=
resistor_value_str_gt(resistance) ==
    LET above(n)  == resistance.o > n \/ (resistance.o = n /\ resistance.m > 0)
        magnitude == IF above(1000000) THEN <<"M">>
                     ELSE IF above(1000) THEN <<"k">>
                     ELSE <<>>
        unit      == IF above(1000000) THEN 1000000
                     ELSE IF above(1000) THEN 1000
                     ELSE 1
    IN  RStrip(RStrip(Fmt2f(Hundredths(resistance, unit)), "0"), ".")
        \o magnitude

resistor_value_str(resistance) ==
    LET magnitude == IF resistance.o >= 1000000 THEN <<"M">>
                     ELSE IF resistance.o >= 1000 THEN <<"k">>
                     ELSE <<>>
        unit      == IF resistance.o >= 1000000 THEN 1000000
                     ELSE IF resistance.o >= 1000 THEN 1000
                     ELSE 1
    IN  RStrip(RStrip(Fmt2f(Hundredths(resistance, unit)), "0"), ".")
        \o magnitude

\* resistor_part_id_str without the tolerance
resistor_part_id_str_no_tolerance(resistance, package, tolerance) ==
    <<"R", "-">> \o resistor_value_str(resistance) \o <<"-">> \o package

resistor_part_id_str(resistance, package, tolerance) ==
    <<"R", "-">> \o resistor_value_str(resistance) \o <<"-">> \o package
    \o <<"-">> \o resistor_tolerance_str(tolerance)

FOOTPRINT_0402 == <<"R","e","s","i","s","t","o","r","_","S","M","D",":","R","_","0","4","0","2","_","1","0","0","5","M","e","t","r","i","c">>
FOOTPRINT_0603 == <<"R","e","s","i","s","t","o","r","_","S","M","D",":","R","_","0","6","0","3","_","1","6","0","8","M","e","t","r","i","c">>

\* The result of a builder that can raise: [ok |-> TRUE, val |-> the value] or
\* [ok |-> FALSE, val |-> the ValueError's message].
Ok(s) == [ok |-> TRUE, val |-> s]
Raise(msg) == [ok |-> FALSE, val |-> msg]

\* resistor_footprint_str returning an empty footprint for an unknown package
resistor_footprint_str_lenient(package) ==
    IF package = <<"0","4","0","2">> THEN Ok(FOOTPRINT_0402)
    ELSE IF package = <<"0","6","0","3">> THEN Ok(FOOTPRINT_0603)
    ELSE Ok(<<>>)

resistor_footprint_str(package) ==
    IF package = <<"0","4","0","2">> THEN Ok(FOOTPRINT_0402)
    ELSE IF package = <<"0","6","0","3">> THEN Ok(FOOTPRINT_0603)
    ELSE Raise("Invalid package type")

resistor_description_str(resistance, package, tolerance) ==
    <<"R","e","s","i","s","t","o","r"," ">> \o resistor_value_str(resistance)
    \o <<" ">> \o package \o <<" ">> \o resistor_tolerance_str(tolerance)
    \o <<" ","0",".","1","W">>

PACKAGING == <<"R">>
REEL == <<"0", "7">>
MpnPackages == { <<"0","2","0","1">>, <<"0","4","0","2">>, <<"0","6","0","3">>,
                 <<"0","8","0","5">>, <<"1","2","0","6">>, <<"1","2","1","0">> }

\* resistance < 10_000_000
Below10M(resistance) == resistance.o < 10000000

\* resistance <= 10_000_000
AtMost10M(resistance) ==
    resistance.o < 10000000 \/ (resistance.o = 10000000 /\ resistance.m = 0)

\* The magnitude letter and the divisor chosen at lines 147-154.
MpnMagnitude(resistance) ==
    IF resistance.o < 1000 THEN [letter |-> "R", unit |-> 1]
    ELSE IF resistance.o < 1000000 THEN [letter |-> "K", unit |-> 1000]
    ELSE [letter |-> "M", unit |-> 1000000]

\* resistance_str with the decimal point stripped like resistor_value_str's
MpnResistanceStr_strip_point(resistance) ==
    LET mg == MpnMagnitude(resistance)
    IN  Replace(RStrip(RStrip(Fmt2f(Hundredths(resistance, mg.unit)), "0"), "."),
                ".", mg.letter)

\* resistance_str of line 159
MpnResistanceStr(resistance) ==
    LET mg == MpnMagnitude(resistance)
    IN  Replace(RStrip(Fmt2f(Hundredths(resistance, mg.unit)), "0"),
                ".", mg.letter)

\* The part number without the hyphen
MpnFormat_no_hyphen(package, tolerance_str, resistance_str) ==
    <<"R", "C">> \o package \o tolerance_str \o <<"R">> \o <<"0", "7">>
    \o resistance_str \o <<"L">>

\* The part number without the tolerance code
MpnFormat_no_tolerance(package, tolerance_str, resistance_str) ==
    <<"R", "C">> \o package \o <<"R">> \o <<"-">> \o <<"0", "7">>
    \o resistance_str \o <<"L">>

\* The final f-string of line 171.
MpnFormat(package, tolerance_str, resistance_str) ==
    <<"R", "C">> \o package \o tolerance_str \o PACKAGING \o <<"-">> \o REEL
    \o resistance_str \o <<"L">>

yageo_resistor_mpn(resistance, package, tolerance) ==
    IF ~AtMost10M(resistance)
    THEN Raise("Not a valid resistance value (1 < {} < 10,000,000)")
    ELSE IF package \notin MpnPackages
    THEN Raise("Invalid package")
    ELSE IF tolerance = 10
    THEN Ok(MpnFormat(package, <<"F">>, MpnResistanceStr(resistance)))
    ELSE IF tolerance = 50
    THEN Ok(MpnFormat(package, <<"J">>, MpnResistanceStr(resistance)))
    ELSE Raise("Invalid tolerance, must be 1.0% or 5.0%")

\* ------------------------------------------------------------- the records
\* The preferred-value series, in hundredths (1.05 is 105).
E24 == << 100, 110, 120, 130, 150, 160, 180, 200, 220, 240, 270, 300,
          330, 360, 390, 430, 470, 510, 560, 620, 680, 750, 820, 910 >>

E48 == << 100, 105, 110, 115, 121, 127, 133, 140, 147, 154,
          162, 169, 178, 187, 196, 205, 215, 226, 237, 249,
          261, 274, 287, 301, 316, 332, 348, 365, 383, 402,
          422, 442, 464, 487, 511, 536, 562, 590, 619, 649,
          681, 715, 750, 787, 825, 866, 909, 953 >>

DATASHEET == <<"h","t","t","p","s",":","/","/","w","w","w",".","y","a","g","e","o",".","c","o","m","/","u","p","l","o","a","d","/","m","e","d","i","a","/","p","r","o","d","u","c","t","/","p","r","o","d","u","c","t","s","/","d","a","t","a","s","h","e","e","t","/","r","c","h","i","p","/","P","Y","u","-","R","C","_","G","r","o","u","p","_","5","1","_","R","o","H","S","_","L","_","1","2",".","p","d","f">>
MANUFACTURER == <<"Y","a","g","e","o">>
SYMBOL == <<"D","e","v","i","c","e",":","R","_","S","m","a","l","l">>
POWER == <<"0",".","1","W">>

\* The field names of DatabaseRow, in declaration order: what headers() yields.
DatabaseRowFields ==
    << <<"p","a","r","t","_","i","d">>,
       <<"v","a","l","u","e">>,
       <<"c","o","m","p","o","n","e","n","t">>,
       <<"m","a","n","u","f","a","c","t","u","r","e","r">>,
       <<"m","a","n","u","f","a","c","t","u","r","e","r","_","p","a","r","t","_","n","u","m","b","e","r">>,
       <<"r","a","t","i","n","g">>,
       <<"p","a","c","k","a","g","e">>,
       <<"l","c","s","c">>,
       <<"o","r","_","e","q","u","i","v","a","l","e","n","t">>,
       <<"s","y","m","b","o","l">>,
       <<"f","o","o","t","p","r","i","n","t">>,
       <<"d","a","t","a","s","h","e","e","t">> >>

headers(row) == DatabaseRowFields

\* values(): the fields in declaration order, whatever the order of the
\* keyword arguments of the constructor call.
values(row) ==
    << row.part_id, row.value, row.component, row.manufacturer,
       row.manufacturer_part_number, row.rating, row.package, row.lcsc,
       row.or_equivalent, row.symbol, row.footprint, row.datasheet >>

\* YageoResistor(resistance, package, tolerance): the three fields of the
\* instance, or the first ValueError raised while __post_init__ evaluates the
\* arguments of DatabaseRow (footprint before manufacturer part number).
YageoResistor(resistance, package, tolerance) ==
    LET footprint == resistor_footprint_str(package)
        mpn       == yageo_resistor_mpn(resistance, package, tolerance)
    IN  IF ~footprint.ok THEN footprint
        ELSE IF ~mpn.ok THEN mpn
        ELSE Ok([ resistance |-> resistance,
                  package    |-> package,
                  tolerance  |-> tolerance ])

\* self.database_row of an instance.  __post_init__ sets it from the three
\* fields and nothing assigns it or them again, so the state keeps the fields
\* and the row is computed from them where it is read.
database_row(self) ==
    [ part_id   |-> resistor_part_id_str(self.resistance, self.package, self.tolerance),
      datasheet |-> DATASHEET,
      symbol    |-> SYMBOL,
      footprint |-> resistor_footprint_str(self.package).val,
      value     |-> resistor_value_str(self.resistance),
      component |-> resistor_description_str(self.resistance, self.package, self.tolerance),
      manufacturer |-> MANUFACTURER,
      manufacturer_part_number |->
          yageo_resistor_mpn(self.resistance, self.package, self.tolerance).val,
      rating    |-> resistor_tolerance_str(self.tolerance) \o <<",", " ">> \o POWER,
      package   |-> self.package,
      lcsc      |-> <<>>,
      or_equivalent |-> <<"y">> ]

\* resistance = base * decade, base in hundredths.  With the series and the
\* decades used here no product has a scaled value half way between two
\* hundredths (NoTieInRun), so that up plays no part in a run.
Product(base, decade) ==
    LET frac == (base % 100) * decade
    IN  [ o  |-> (base \div 100) * decade + (frac \div 100),
          m  |-> (frac % 100) * 10,
          up |-> 0 ]

Zero == [o |-> 0, m |-> 0, up |-> 0]
TenMeg == [o |-> 10000000, m |-> 0, up |-> 0]
P0402 == <<"0","4","0","2">>
P0603 == <<"0","6","0","3">>

\* The arguments of the four records of lines 202-207.
BoundaryArgs ==
    << [resistance |-> Zero,   package |-> P0402, tolerance |-> 50],
       [resistance |-> Zero,   package |-> P0603, tolerance |-> 50],
       [resistance |-> TenMeg, package |-> P0402, tolerance |-> 10],
       [resistance |-> TenMeg, package |-> P0603, tolerance |-> 10] >>

\* decades without its last entry
DecadesTo100k == <<1, 10, 100, 1000, 10000, 100000>>

\* The values of the locals of gen_resistor_csv, lines 191-193.
SourcePackages == <<P0402, P0603>>
SourceSeriesTolerances == << [series |-> E48, tolerance |-> 10],
                             [series |-> E24, tolerance |-> 50] >>
SourceDecades == <<1, 10, 100, 1000, 10000, 100000, 1000000>>

\* --------------------------------------------------------------- the state
VARIABLES
    packages,           \* gen_resistor_csv's local packages
    series_tolerances,  \* gen_resistor_csv's local series_tolerances
    decades,            \* gen_resistor_csv's local decades
    pc,                 \* where the run is
    pi, si,             \* the package and the (series, tolerance) pair at hand
    di,                 \* resistor_list's decade at hand
    bi,                 \* the record of the list display of lines 202-207 at hand
    local,              \* the list under construction (resistor_list's resistors,
                        \* or the list display of lines 202-207)
    resistors,          \* gen_resistor_csv's resistors
    file,               \* yageo_resistors.csv: [exists, rows]
    opened,             \* open(...) has been called
    err,                \* the message of the ValueError that ended the run
    arg,                \* the arguments of a direct call of a builder
    ret                 \* and what it returned

vars == << packages, series_tolerances, decades, pc, pi, si, di, bi, local,
           resistors, file, opened, err, arg, ret >>

params == << packages, series_tolerances, decades >>
call   == << arg, ret >>

\* Rows a file left by an earlier run or by someone else may hold.
OldRow == << <<"o","l","d">> >>
OldFiles == { [exists |-> FALSE, rows |-> <<>>] }
            \cup { [exists |-> TRUE, rows |-> [i \in 1..n |-> OldRow]] : n \in 0..MaxOldRows }

NoCall == [fn |-> "none", res |-> Ok(<<>>)]
NoArg == [resistance |-> Zero, package |-> P0603, tolerance |-> 10]

InitRun ==
    /\ pc = "gen"
    /\ pi = 1 /\ si = 1 /\ di = 1 /\ bi = 1
    /\ local = <<>>
    /\ resistors = <<>>
    /\ file \in OldFiles
    /\ opened = FALSE
    /\ err = ""
    /\ arg = NoArg
    /\ ret = NoCall

\* The program as it is.
Init ==
    /\ packages = SourcePackages
    /\ series_tolerances = SourceSeriesTolerances
    /\ decades = SourceDecades
    /\ InitRun

\* ------------------------------------------------------------------ the run
\* Lines 196-200: the head of the two outer loops; calls resistor_list for
\* the next (package, series, tolerance), or leaves the loops.
CallList ==
    /\ pc = "gen"
    /\ IF pi > Len(packages) \/ Len(series_tolerances) = 0
       THEN pc' = "boundary"
       ELSE pc' = "list"
    /\ local' = <<>>
    /\ di' = 1 /\ bi' = 1
    /\ UNCHANGED << params, pi, si, resistors, file, opened, err, call >>

\* Lines 178-185: one iteration of resistor_list's loop over the decades, the
\* whole loop over the series in it.  A record that raises ends the run; the
\* records built before it in this iteration are in the list by then.
ListStep ==
    /\ pc = "list"
    /\ di <= Len(decades)
    /\ LET st     == series_tolerances[si]
           made   == [ b \in 1..Len(st.series) |->
                         YageoResistor(Product(st.series[b], decades[di]),
                                       packages[pi], st.tolerance) ]
           raised == { b \in 1..Len(st.series) : ~made[b].ok }
           first  == CHOOSE b \in raised : \A c \in raised : b <= c
       IN  IF raised = {}
           THEN /\ local' = local \o [ b \in 1..Len(st.series) |-> made[b].val ]
                /\ di' = di + 1
                /\ UNCHANGED << pc, err >>
           ELSE /\ local' = local \o [ b \in 1..(first - 1) |-> made[b].val ]
                /\ pc' = "error"
                /\ err' = made[first].val
                /\ UNCHANGED di
    /\ UNCHANGED << params, pi, si, bi, resistors, file, opened, call >>

\* resistor_list's result put in front of the records already there
ListReturn_prepend ==
    /\ pc = "list"
    /\ di > Len(decades)
    /\ resistors' = local \o resistors
    /\ local' = <<>>
    /\ IF si < Len(series_tolerances)
       THEN si' = si + 1 /\ pi' = pi
       ELSE si' = 1 /\ pi' = pi + 1
    /\ pc' = "gen"
    /\ UNCHANGED << params, di, bi, file, opened, err, call >>

\* Lines 187 and 198: resistor_list returns and its result is added.
ListReturn ==
    /\ pc = "list"
    /\ di > Len(decades)
    /\ resistors' = resistors \o local
    /\ local' = <<>>
    /\ IF si < Len(series_tolerances)
       THEN si' = si + 1 /\ pi' = pi
       ELSE si' = 1 /\ pi' = pi + 1
    /\ pc' = "gen"
    /\ UNCHANGED << params, di, bi, file, opened, err, call >>

\* Lines 203-206: the next record of the list display.
BoundaryStep ==
    /\ pc = "boundary"
    /\ bi <= Len(BoundaryArgs)
    /\ LET a == BoundaryArgs[bi]
           r == YageoResistor(a.resistance, a.package, a.tolerance)
       IN  IF r.ok
           THEN /\ local' = Append(local, r.val)
                /\ bi' = bi + 1
                /\ UNCHANGED << pc, err >>
           ELSE /\ pc' = "error"
                /\ err' = r.val
                /\ UNCHANGED << local, bi >>
    /\ UNCHANGED << params, pi, si, di, resistors, file, opened, call >>

\* Line 202: resistors += [...]
BoundaryExtend ==
    /\ pc = "boundary"
    /\ bi > Len(BoundaryArgs)
    /\ resistors' = resistors \o local
    /\ local' = <<>>
    /\ pc' = "open"
    /\ UNCHANGED << params, pi, si, di, bi, file, opened, err, call >>

\* The file opened in append mode
OpenFile_append ==
    /\ pc = "open"
    /\ file' = [exists |-> TRUE, rows |-> file.rows]
    /\ opened' = TRUE
    /\ pc' = "header"
    /\ UNCHANGED << params, pi, si, di, bi, local, resistors, err, call >>

\* Line 209: open(..., "w") creates the file or truncates it.
OpenFile ==
    /\ pc = "open"
    /\ file' = [exists |-> TRUE, rows |-> <<>>]
    /\ opened' = TRUE
    /\ pc' = "header"
    /\ UNCHANGED << params, pi, si, di, bi, local, resistors, err, call >>

\* Line 211
WriteHeader ==
    /\ pc = "header"
    /\ file' = [file EXCEPT !.rows = Append(@, headers(database_row(resistors[1])))]
    /\ pc' = "rows"
    /\ UNCHANGED << params, pi, si, di, bi, local, resistors, opened, err, call >>

\* Lines 212-213: the writing loop.
WriteRows ==
    /\ pc = "rows"
    /\ file' = [file EXCEPT !.rows =
                  @ \o [ i \in 1..Len(resistors) |-> values(database_row(resistors[i])) ]]
    /\ pc' = "close"
    /\ UNCHANGED << params, pi, si, di, bi, local, resistors, opened, err, call >>

\* The end of the with block: the file is closed and the run is over.
CloseFile ==
    /\ pc = "close"
    /\ pc' = "done"
    /\ UNCHANGED << params, pi, si, di, bi, local, resistors, file, opened, err, call >>

Next ==
    \/ CallList
    \/ ListStep
    \/ ListReturn
    \/ BoundaryStep
    \/ BoundaryExtend
    \/ OpenFile
    \/ WriteHeader
    \/ WriteRows
    \/ CloseFile

Spec == Init /\ [][Next]_vars

\* ------------------------------------------- runs with other loop parameters
\* Shorter series and other packages, tolerances and decades than the source
\* gives its locals: what a run does when a record cannot be built.
P0805 == <<"0","8","0","5">>
P1206 == <<"1","2","0","6">>
P2512 == <<"2","5","1","2">>
OtherPackages == { SourcePackages, <<P0402, P0805>>, <<P1206, P0603>>, <<P0603, P2512>> }
OtherSeriesTolerances ==
    { << [series |-> <<100, 105>>, tolerance |-> 10], [series |-> <<100, 470>>, tolerance |-> 50] >>,
      << [series |-> <<100, 105>>, tolerance |-> 10], [series |-> <<100, 470>>, tolerance |-> 20] >>,
      << [series |-> <<100, 953>>, tolerance |-> 5] >> }
OtherDecades == { <<1, 1000, 1000000>>, <<10, 100>>, <<1, 10000000>>, <<10000000, 1>> }

InitOther ==
    /\ packages \in OtherPackages
    /\ series_tolerances \in OtherSeriesTolerances
    /\ decades \in OtherDecades
    /\ InitRun

SpecOther == InitOther /\ [][Next]_vars

\* ------------------------------------------------- direct calls of a builder
OhmPoints == {0, 4, 10, 100, 1000, 1005, 2500, 10000, 1000000, 1005000,
              1050000, 10000000}
MilliPoints == {0, 1, 4, 5, 6, 10, 100, 125, 234, 500, 700, 995, 999}
Ohms == { o \in { p + d : p \in OhmPoints, d \in -Window..Window } : o >= 0 }

\* The divisor both builders scale a resistance of o ohms by.
Unit(o) == IF o < 1000 THEN 1 ELSE IF o < 1000000 THEN 1000 ELSE 1000000

\* The floats of the decimal values tried: where the scaled value is half way
\* between two hundredths, the one that prints down and the one that prints up.
Resistances ==
    { r \in [o : Ohms, m : MilliPoints, up : {0, 1}] :
        r.up = 1 => Remainder(r, Unit(r.o)) = Half(Unit(r.o)) }
Packages == MpnPackages \cup { P2512, <<"6","0","3">> }
Tolerances == {10, 50, 20, 5}

InitCall ==
    /\ packages = SourcePackages
    /\ series_tolerances = SourceSeriesTolerances
    /\ decades = SourceDecades
    /\ pc = "call"
    /\ pi = 1 /\ si = 1 /\ di = 1 /\ bi = 1
    /\ local = <<>>
    /\ resistors = <<>>
    /\ file = [exists |-> FALSE, rows |-> <<>>]
    /\ opened = FALSE
    /\ err = ""
    /\ arg \in [resistance : Resistances, package : Packages, tolerance : Tolerances]
    /\ ret = NoCall

run == << packages, series_tolerances, decades, pc, pi, si, di, bi, local,
          resistors, file, opened, err >>

CallValueStr ==
    /\ pc = "call"
    /\ ret.fn = "none"
    /\ ret' = [fn |-> "resistor_value_str",
               res |-> Ok(resistor_value_str(arg.resistance))]
    /\ UNCHANGED << run, arg >>

CallMpn ==
    /\ pc = "call"
    /\ ret.fn = "none"
    /\ ret' = [fn |-> "yageo_resistor_mpn",
               res |-> yageo_resistor_mpn(arg.resistance, arg.package, arg.tolerance)]
    /\ UNCHANGED << run, arg >>

NextCall ==
    \/ CallValueStr
    \/ CallMpn

SpecCall == InitCall /\ [][NextCall]_vars

\* ---------------------------------------------- reading a formatted number
IsDigit(c) == \E d \in 1..10 : DigitChar[d] = c
DigitVal(c) == (CHOOSE d \in 1..10 : DigitChar[d] = c) - 1

\* The first position of character c in s, 0 when it does not occur.
IndexOf(s, c) == IF \E i \in 1..Len(s) : s[i] = c
                 THEN CHOOSE i \in 1..Len(s) : s[i] = c /\ \A j \in 1..(i - 1) : s[j] # c
                 ELSE 0

Count(s, c) == Cardinality({ i \in 1..Len(s) : s[i] = c })

RECURSIVE ParseNat(_)
ParseNat(s) == IF s = <<>> THEN 0
               ELSE 10 * ParseNat(SubSeq(s, 1, Len(s) - 1)) + DigitVal(s[Len(s)])

AllDigits(s) == \A i \in 1..Len(s) : IsDigit(s[i])

\* An integer part and a fraction of at most two digits with no trailing zero.
Stripped(int, frac) ==
    /\ int # <<>> /\ AllDigits(int)
    /\ Len(frac) <= 2 /\ AllDigits(frac)
    /\ frac # <<>> => frac[Len(frac)] # "0"

\* The number int.frac, in hundredths.
Read(int, frac) ==
    ParseNat(int) * 100
    + (IF Len(frac) = 0 THEN 0
       ELSE IF Len(frac) = 1 THEN 10 * DigitVal(frac[1])
       ELSE ParseNat(frac))

Abs(x) == IF x < 0 THEN -x ELSE x

\* h hundredths of `unit` ohms differ from resistance r by at most half a
\* hundredth of the unit: h is r / unit rounded to two decimals.
Rounded(h, r, unit) ==
    IF unit = 1
    THEN Abs(h * 10 - (r.o * 1000 + r.m)) <= 5
    ELSE LET dO == h * (unit \div 100) - r.o
         IN  /\ Abs(dO) <= unit
             /\ Abs(dO * 1000 - r.m) <= unit * 5

\* h hundredths of `unit` ohms are resistance r exactly.
Exactly(h, r, unit) ==
    IF unit = 1
    THEN h * 10 = r.o * 1000 + r.m
    ELSE h * (unit \div 100) = r.o /\ r.m = 0


\* The decimal value of a resistance, as <<ohms, thousandths>>.
Ohm(o, m) == <<o, m>>
Dec(r) == <<r.o, r.m>>

\* A decimal value above 10,000,000 ohms.
Over10M(d) == d[1] > 10000000 \/ (d[1] = 10000000 /\ d[2] > 0)

\* No resistance of a run has a scaled value half way between two hundredths:
\* the records of a run do not depend on how such a value would print.
NoTieInRun ==
    \A i \in 1..Len(local) :
        Remainder(local[i].resistance, Unit(local[i].resistance.o))
            # Half(Unit(local[i].resistance.o))

\* ------------------------------------------------------------------ C8
\* The decimal number of a value string s that ends in `suffix`.
ValueNumber(s, suffix) == SubSeq(s, 1, Len(s) - Len(suffix))

ValueShape(s, r, suffix, unit) ==
    LET num  == ValueNumber(s, suffix)
        dot  == IndexOf(num, ".")
        int  == IF dot = 0 THEN num ELSE SubSeq(num, 1, dot - 1)
        frac == IF dot = 0 THEN <<>> ELSE SubSeq(num, dot + 1, Len(num))
    IN  /\ Len(s) >= Len(suffix)
        /\ SubSeq(s, Len(s) - Len(suffix) + 1, Len(s)) = suffix
        /\ dot # 0 => frac # <<>>
        /\ Stripped(int, frac)
        /\ Rounded(Read(int, frac), r, unit)

ValueExamples(r, s) ==
    /\ Dec(r) = Ohm(0, 100)     => s = <<"0", ".", "1">>
    /\ Dec(r) = Ohm(10, 0)      => s = <<"1", "0">>
    /\ Dec(r) = Ohm(1000, 0)    => s = <<"1", "k">>
    /\ Dec(r) = Ohm(2500, 0)    => s = <<"2", ".", "5", "k">>
    /\ Dec(r) = Ohm(1000000, 0) => s = <<"1", "M">>
    /\ Dec(r) = Ohm(10, 234)    => s = <<"1", "0", ".", "2", "3">>
    /\ Dec(r) = Ohm(0, 0)       => s = <<"0">>

\* C8: resistor_value_str(x) ends in "M" and shows x / 1,000,000 exactly when
\* x >= 1,000,000, ends in "k" and shows x / 1,000 exactly when
\* 1,000 <= x < 1,000,000, and has no suffix otherwise; the number shown is
\* the scaled value rounded to two decimals, without trailing zeros and
\* without a trailing decimal point; the seven documented examples come out
\* as documented.
C8_ValueStr ==
    ret.fn = "resistor_value_str" =>
        LET r == arg.resistance
            s == ret.res.val
        IN  /\ ret.res.ok
            /\ r.o >= 1000000 => ValueShape(s, r, <<"M">>, 1000000)
            /\ (r.o >= 1000 /\ r.o < 1000000) => ValueShape(s, r, <<"k">>, 1000)
            /\ r.o < 1000 => ValueShape(s, r, <<>>, 1)
            /\ ValueExamples(r, s)

C8_Witness ==
    /\ ret.fn = "resistor_value_str"
    /\ Dec(arg.resistance) = Ohm(2500, 0)
    /\ ret.res.val = <<"2", ".", "5", "k">>

\* ------------------------------------------------------------------ C6
SixPackages == { <<"0","2","0","1">>, <<"0","4","0","2">>, <<"0","6","0","3">>,
                 <<"0","8","0","5">>, <<"1","2","0","6">>, <<"1","2","1","0">> }

\* C6: yageo_resistor_mpn raises exactly when the resistance is above
\* 10,000,000 ohms, or the package is not one of the six codes, or the
\* tolerance is neither 1.0 nor 5.0; otherwise it returns a part number whose
\* tolerance code is "F" for 1.0 and "J" for 5.0.
C6_MpnErrors ==
    ret.fn = "yageo_resistor_mpn" =>
        /\ ~ret.res.ok <=> \/ Over10M(Dec(arg.resistance))
                           \/ arg.package \notin SixPackages
                           \/ arg.tolerance \notin {10, 50}
        /\ ret.res.ok =>
             /\ Len(ret.res.val) > 2 + Len(arg.package)
             /\ ret.res.val[2 + Len(arg.package) + 1] =
                    (IF arg.tolerance = 10 THEN "F" ELSE "J")

C6_Witness ==
    /\ ret.fn = "yageo_resistor_mpn"
    /\ Dec(arg.resistance) = Ohm(10000000, 0)
    /\ arg.package = <<"1","2","1","0">>
    /\ arg.tolerance = 50
    /\ ret.res.ok
    /\ ret.res.val[7] = "J"

\* ------------------------------------------------------------------ C5
\* The letter of the scaled mantissa and the unit it scales by.
MantissaLetter(r) == IF r.o < 1000 THEN "R" ELSE IF r.o < 1000000 THEN "K" ELSE "M"
MantissaUnit(r) == IF r.o < 1000 THEN 1 ELSE IF r.o < 1000000 THEN 1000 ELSE 1000000

\* mant is integer digits, the letter, and at most two fraction digits with no
\* trailing zero, and reads as r scaled, rounded to two decimals.
MantissaShape(mant, r) ==
    LET pos  == IndexOf(mant, MantissaLetter(r))
        int  == SubSeq(mant, 1, pos - 1)
        frac == SubSeq(mant, pos + 1, Len(mant))
    IN  /\ pos > 0
        /\ Count(mant, MantissaLetter(r)) = 1
        /\ Stripped(int, frac)
        /\ Rounded(Read(int, frac), r, MantissaUnit(r))

ToleranceCode(t) == IF t = 10 THEN <<"F">> ELSE <<"J">>

\* s is head, then a scaled mantissa of r, then "L".
HeadMantissaL(s, head, r) ==
    /\ Len(s) > Len(head) + 1
    /\ SubSeq(s, 1, Len(head)) = head
    /\ s[Len(s)] = "L"
    /\ MantissaShape(SubSeq(s, Len(head) + 1, Len(s) - 1), r)

\* C5 as stated: "RC" + package + code + "R" + "07" + mantissa + "L",
\* nothing else in between.
C5_AsStated ==
    (ret.fn = "yageo_resistor_mpn" /\ ret.res.ok) =>
        HeadMantissaL(ret.res.val,
                      <<"R", "C">> \o arg.package \o ToleranceCode(arg.tolerance)
                      \o <<"R">> \o <<"0", "7">>,
                      arg.resistance)

\* C5 (amended): for every valid input the part number is "RC" + package +
\* toleranceCode + "R" + "-" + "07" + scaledMantissa + "L": a hyphen stands
\* between the packaging code "R" and the reel code "07", and nothing else is
\* added; for (10,000 ohms, "0603", 1.0) it begins with "RC0603F", contains
\* "07" and "K", and ends in "L".
C5_MpnFormat ==
    (ret.fn = "yageo_resistor_mpn" /\ ret.res.ok) =>
        /\ HeadMantissaL(ret.res.val,
                         <<"R", "C">> \o arg.package \o ToleranceCode(arg.tolerance)
                         \o <<"R">> \o <<"-">> \o <<"0", "7">>,
                         arg.resistance)
        /\ (Dec(arg.resistance) = Ohm(10000, 0) /\ arg.package = <<"0","6","0","3">>
            /\ arg.tolerance = 10)
           => /\ SubSeq(ret.res.val, 1, 7) = <<"R","C","0","6","0","3","F">>
              /\ \E i \in 1..(Len(ret.res.val) - 1) :
                    ret.res.val[i] = "0" /\ ret.res.val[i + 1] = "7"
              /\ Count(ret.res.val, "K") = 1
              /\ ret.res.val[Len(ret.res.val)] = "L"

C5_Witness ==
    /\ ret.fn = "yageo_resistor_mpn"
    /\ Dec(arg.resistance) = Ohm(10000, 0)
    /\ arg.package = <<"0","6","0","3">>
    /\ arg.tolerance = 10
    /\ ret.res.ok
    /\ ret.res.val = <<"R","C","0","6","0","3","F","R","-","0","7","1","0","K","L">>

\* ------------------------------------------------------------------ C1
Args(rec) == [resistance |-> Dec(rec.resistance), package |-> rec.package,
              tolerance |-> rec.tolerance]

PartIds == { database_row(resistors[i]).part_id : i \in 1..Len(resistors) }

\* C1: in the finished catalog no two records at different positions have the
\* same part_id: there are as many different part_ids as records.
C1_PartIdUnique == pc = "done" => Cardinality(PartIds) = Len(resistors)

\* Two records of the finished catalog with the same value and package, told
\* apart by the tolerance alone.
C1_Witness ==
    /\ pc = "done"
    /\ \E i \in 1..48 :
         /\ database_row(resistors[i]).value = database_row(resistors[336 + i]).value
         /\ resistors[i].package = resistors[336 + i].package
         /\ database_row(resistors[i]).part_id # database_row(resistors[336 + i]).part_id

\* ------------------------------------------------------------------ C2
CountOf(package, tolerance) ==
    Cardinality({ i \in 1..(Len(resistors) - 4) :
                    resistors[i].package = package /\ resistors[i].tolerance = tolerance })

\* C2: a complete run builds exactly 1012 records: per package 48 * 7 at 1%
\* and 24 * 7 at 5%, then the 4 boundary records.
C2_RecordCount ==
    pc \in {"open", "done"} =>
        /\ Len(resistors) = 1012
        /\ \A p \in { <<"0","4","0","2">>, <<"0","6","0","3">> } :
             /\ CountOf(p, 10) = 48 * 7
             /\ CountOf(p, 50) = 24 * 7
        /\ \A i \in 1009..1012 :
             Dec(resistors[i].resistance) \in { Ohm(0, 0), Ohm(10000000, 0) }

C2_Witness == pc = "done" /\ Len(resistors) = 2 * (48 + 24) * 7 + 4

\* ------------------------------------------------------------------ C3
RECURSIVE Pow10(_)
Pow10(k) == IF k = 0 THEN 1 ELSE 10 * Pow10(k - 1)

\* base hundredths times 10^k, as a resistance
Times(base, k) == Ohm((base * Pow10(k)) \div 100, ((base * Pow10(k)) % 100) * 10)

\* The arguments of the record at position i of the generation order.
ExpectedAt(i) ==
    IF i > 1008
    THEN [ resistance |-> IF i <= 1010 THEN Ohm(0, 0) ELSE Ohm(10000000, 0),
           package    |-> IF i \in {1009, 1011} THEN <<"0","4","0","2">>
                          ELSE <<"0","6","0","3">>,
           tolerance  |-> IF i <= 1010 THEN 50 ELSE 10 ]
    ELSE LET r == (i - 1) % 504
             q == r - 336
         IN  [ resistance |-> IF r < 336 THEN Times(E48[(r % 48) + 1], r \div 48)
                              ELSE Times(E24[(q % 24) + 1], q \div 24),
               package    |-> IF i <= 504 THEN <<"0","4","0","2">>
                              ELSE <<"0","6","0","3">>,
               tolerance  |-> IF r < 336 THEN 10 ELSE 50 ]

InOrder ==
    /\ \A i \in 1..Len(resistors) : Args(resistors[i]) = ExpectedAt(i)
    /\ pc = "done" =>
         /\ Len(file.rows) = 1013
         /\ \A i \in 1..1012 :
              /\ file.rows[i + 1][1] = database_row(resistors[i]).part_id
              /\ file.rows[i + 1][5] = database_row(resistors[i]).manufacturer_part_number

Kept == /\ Len(resistors') >= Len(resistors)
        /\ SubSeq(resistors', 1, Len(resistors)) = resistors

\* C3: the records are in generation order (0402 before 0603, within a package
\* E48 at 1% before E24 at 5%, decades ascending, bases in series order, the
\* four boundary records last), the rows of the output follow the same order,
\* and no step removes or reorders a record once appended.
C3_Order == [](pc \in {"gen", "open", "done"} => InOrder) /\ [][Kept]_vars

C3_Witness ==
    /\ pc = "done"
    /\ Args(resistors[504]) = [resistance |-> Ohm(9100000, 0),
                               package |-> <<"0","4","0","2">>, tolerance |-> 50]
    /\ Args(resistors[505]) = [resistance |-> Ohm(1, 0),
                               package |-> <<"0","6","0","3">>, tolerance |-> 10]
    /\ file.rows[1013][1] = <<"R","-","1","0","M","-","0","6","0","3","-","1","%">>

\* ------------------------------------------------------------------ C7
FieldNames ==
    << <<"p","a","r","t","_","i","d">>, <<"v","a","l","u","e">>,
       <<"c","o","m","p","o","n","e","n","t">>,
       <<"m","a","n","u","f","a","c","t","u","r","e","r">>,
       <<"m","a","n","u","f","a","c","t","u","r","e","r","_","p","a","r","t","_","n","u","m","b","e","r">>,
       <<"r","a","t","i","n","g">>, <<"p","a","c","k","a","g","e">>,
       <<"l","c","s","c">>,
       <<"o","r","_","e","q","u","i","v","a","l","e","n","t">>,
       <<"s","y","m","b","o","l">>, <<"f","o","o","t","p","r","i","n","t">>,
       <<"d","a","t","a","s","h","e","e","t">> >>

\* C7: after a successful run the file holds the header row with the twelve
\* field names in order, then one row per record, rows = records + 1, and no
\* row of its previous content.
C7_File ==
    pc = "done" =>
        /\ file.exists
        /\ Len(file.rows) = Len(resistors) + 1
        /\ file.rows[1] = FieldNames
        /\ \A i \in 1..Len(resistors) :
             LET row == file.rows[i + 1]
                 rec == database_row(resistors[i])
             IN  /\ Len(row) = 12
                 /\ row[1] = rec.part_id
                 /\ row[2] = rec.value
                 /\ row[3] = rec.component
                 /\ row[4] = rec.manufacturer
                 /\ row[5] = rec.manufacturer_part_number
                 /\ row[6] = rec.rating
                 /\ row[7] = rec.package
                 /\ row[8] = rec.lcsc
                 /\ row[9] = rec.or_equivalent
                 /\ row[10] = rec.symbol
                 /\ row[11] = rec.footprint
                 /\ row[12] = rec.datasheet
        /\ \A k \in 1..Len(file.rows) : file.rows[k] # OldRow

C7_Witness ==
    /\ pc = "done"
    /\ file.rows[1][1] = <<"p","a","r","t","_","i","d">>
    /\ file.rows[2][1] = <<"R","-","1","-","0","4","0","2","-","1","%">>
    /\ Len(file.rows) = 1013

\* ------------------------------------------------------------------ C9
\* The scaled mantissa of a part number: what stands between the reel code
\* and the final "L".
MantissaOf(mpn) == SubSeq(mpn, 12, Len(mpn) - 1)

MantissaExact(mant, r) ==
    LET pos  == IndexOf(mant, MantissaLetter(r))
        int  == SubSeq(mant, 1, pos - 1)
        frac == SubSeq(mant, pos + 1, Len(mant))
    IN  /\ pos > 1
        /\ Count(mant, MantissaLetter(r)) = 1
        /\ Stripped(int, frac)
        /\ Exactly(Read(int, frac), r, MantissaUnit(r))

MantissaExamples(r, mant) ==
    /\ Dec(r) = Ohm(0, 0)        => mant = <<"0", "R">>
    /\ Dec(r) = Ohm(4, 700)      => mant = <<"4", "R", "7">>
    /\ Dec(r) = Ohm(100, 0)      => mant = <<"1", "0", "0", "R">>
    /\ Dec(r) = Ohm(1000, 0)     => mant = <<"1", "K">>
    /\ Dec(r) = Ohm(10000, 0)    => mant = <<"1", "0", "K">>
    /\ Dec(r) = Ohm(1050000, 0)  => mant = <<"1", "M", "0", "5">>
    /\ Dec(r) = Ohm(10000000, 0) => mant = <<"1", "0", "M">>

\* C9: for every record of the catalog the scaled mantissa is the scaled value
\* (letter R below 1,000, K below 1,000,000, M up to 10,000,000) with its
\* decimal point replaced by the letter: integer digits, the letter exactly
\* once, then the fraction digits without trailing zeros.
C9_Mantissa ==
    pc = "done" =>
        \A i \in 1..Len(resistors) :
            LET mant == MantissaOf(database_row(resistors[i]).manufacturer_part_number)
            IN  /\ MantissaExact(mant, resistors[i].resistance)
                /\ MantissaExamples(resistors[i].resistance, mant)

C9_Witness ==
    /\ pc = "done"
    /\ \E i \in 1..Len(resistors) :
         /\ Dec(resistors[i].resistance) = Ohm(1050000, 0)
         /\ MantissaOf(database_row(resistors[i]).manufacturer_part_number)
              = <<"1", "M", "0", "5">>
    /\ \E i \in 1..Len(resistors) :
         /\ Dec(resistors[i].resistance) = Ohm(0, 0)
         /\ MantissaOf(database_row(resistors[i]).manufacturer_part_number)
              = <<"0", "R">>

\* ------------------------------------------------------------------ C10
Mpns == { database_row(resistors[i]).manufacturer_part_number :
            i \in 1..Len(resistors) }

\* C10: in the finished catalog no two records at different positions have
\* the same manufacturer_part_number: there are as many different part
\* numbers as records.
C10_MpnUnique == pc = "done" => Cardinality(Mpns) = Len(resistors)

\* The 10 Mohm boundary record and the 1 Mohm series record of one package:
\* mantissas "10M" and "1M".
C10_Witness ==
    /\ pc = "done"
    /\ database_row(resistors[1011]).manufacturer_part_number
         = <<"R","C","0","4","0","2","F","R","-","0","7","1","0","M","L">>
    /\ database_row(resistors[289]).manufacturer_part_number
         = <<"R","C","0","4","0","2","F","R","-","0","7","1","M","L">>

\* ------------------------------------------------------------------ C4
\* base hundredths times decade, as a resistance
TimesDecade(base, decade) ==
    Ohm((base \div 100) * decade + ((base % 100) * decade) \div 100,
         (((base % 100) * decade) % 100) * 10)

\* The arguments of the records one (package, series, tolerance) stands for,
\* decade by decade.
BlockArgs(package, st) ==
    [ k \in 1..(Len(decades) * Len(st.series)) |->
        [ resistance |-> TimesDecade(st.series[((k - 1) % Len(st.series)) + 1],
                                     decades[((k - 1) \div Len(st.series)) + 1]),
          package    |-> package,
          tolerance  |-> st.tolerance ] ]

RECURSIVE PackageArgs(_, _)
PackageArgs(package, n) ==
    IF n = 0 THEN <<>>
    ELSE PackageArgs(package, n - 1) \o BlockArgs(package, series_tolerances[n])

RECURSIVE SeriesArgs(_)
SeriesArgs(n) ==
    IF n = 0 THEN <<>>
    ELSE SeriesArgs(n - 1) \o PackageArgs(packages[n], Len(series_tolerances))

\* The arguments of every record the run is to build, in generation order.
AllArgs ==
    SeriesArgs(Len(packages))
    \o << [resistance |-> Ohm(0, 0), package |-> <<"0","4","0","2">>, tolerance |-> 50],
          [resistance |-> Ohm(0, 0), package |-> <<"0","6","0","3">>, tolerance |-> 50],
          [resistance |-> Ohm(10000000, 0), package |-> <<"0","4","0","2">>, tolerance |-> 10],
          [resistance |-> Ohm(10000000, 0), package |-> <<"0","6","0","3">>, tolerance |-> 10] >>

\* A record that cannot be built.
Unbuildable(a) ==
    \/ a.package \notin { <<"0","4","0","2">>, <<"0","6","0","3">> }
    \/ a.tolerance \notin {10, 50}
    \/ Over10M(a.resistance)

SomeUnbuildable == \E i \in 1..Len(AllArgs) : Unbuildable(AllArgs[i])

FirstUnbuildable ==
    CHOOSE i \in 1..Len(AllArgs) :
        Unbuildable(AllArgs[i]) /\ \A j \in 1..(i - 1) : ~Unbuildable(AllArgs[j])

Built == resistors \o local

FailFast ==
    /\ pc = "error" =>
         /\ SomeUnbuildable
         /\ err # ""
         /\ Len(Built) = FirstUnbuildable - 1
         /\ \A i \in 1..Len(Built) : Args(Built[i]) = AllArgs[i]
         /\ ~opened
    /\ SomeUnbuildable => pc \in {"gen", "list", "boundary", "error"} /\ ~opened
    /\ opened =>
         /\ Len(resistors) = Len(AllArgs)
         /\ \A i \in 1..Len(resistors) : Args(resistors[i]) = AllArgs[i]

FileUntouched ==
    file' # file =>
        /\ ~SomeUnbuildable
        /\ Len(resistors) = Len(AllArgs)
        /\ pc \in {"open", "header", "rows"}

\* C4: when a record of the run cannot be built (package other than 0402 and
\* 0603, tolerance other than 1.0 and 5.0, resistance above 10,000,000), the
\* run ends with an error at the first such record, the file is never opened
\* and keeps its content or absence; the file changes only once every record
\* has been built.
C4_FailFast == []FailFast /\ [][FileUntouched]_vars

\* A run that has built records and then meets a package the part-number
\* builder alone would accept.
C4_Witness ==
    /\ pc = "error"
    /\ err = "Invalid package type"
    /\ packages = <<P0402, P0805>>
    /\ Len(resistors) > 0
    /\ ~opened
    /\ file.exists /\ Len(file.rows) = MaxOldRows

====
